---- MODULE Spec2Model ----
(***************************************************************************)
(* Model of the FPL statistics pipeline: models.py (typed entities, the    *)
(* EventList current-event resolver, the id lookups) and app.py (snapshot  *)
(* construction into st.session_state, the price-change indicator, the     *)
(* value-efficiency ratio, the filter steps and the per-position tabs).    *)
(*                                                                         *)
(* Prices are kept as integer tenths (now_cost); "Price" = now_cost / 10   *)
(* is an exact rescaling, so every comparison of prices is a comparison of *)
(* tenths.  Floating point results of pandas are modelled by their kind:   *)
(* a finite rational, +inf, -inf or NaN.                                   *)
(***************************************************************************)
EXTENDS Integers, Sequences, FiniteSets, TLC

VARIABLES
    session_state,   \* st.session_state: teams, players, events, positions
    feed,            \* the document get_official_stats returns when it succeeds
    now,             \* the wall clock read by datetime.now(pytz.utc)
    ev_result,       \* last value returned by EventList.current_event
    ev_at,           \* the instant at which that value was resolved
    id_read,         \* last value returned by EventList.current_event_id
    name_read,       \* last value returned by EventList.current_event_name
    pc,              \* position inside parse_official_stats ("idle" outside)
    runs,            \* number of parse_official_stats runs started
    locals,          \* response, teams, players, events, positions of the run
    start_state,     \* session_state when the current or last run started
    last_run,        \* how the last run ended: "none", "returned", "raised"
    cost_change,     \* <<cost_change_event, cost_change_start>> of a row
    price_change,    \* the "Price Change" cell computed for that row
    df_all_players,  \* main: the sorted table of all players
    criteria,        \* main: the values read from the widgets
    df_filtered,     \* main: the table after the filter steps
    tabs             \* main: one entry per tab, its rows and summary

evVars == <<now, ev_result, ev_at, id_read, name_read>>
parseVars == <<pc, runs, locals, start_state, last_run>>
priceVars == <<cost_change, price_change>>
tableVars == <<df_all_players, criteria, df_filtered, tabs>>

vars == <<session_state, feed, evVars, parseVars, priceVars, tableVars>>

----------------------------------------------------------------------------
(* Bounds of the model *)

MaxEvents == 2      \* longest EventList
MaxClock == 2       \* deadlines lie in 1..MaxClock, the clock in 0..MaxClock

----------------------------------------------------------------------------
(* Optional values *)

None == [none |-> TRUE]
Some(v) == [val |-> v]
Unread == [unread |-> TRUE]
Absent == [absent |-> TRUE]
Stored(v) == [stored |-> v]

----------------------------------------------------------------------------
(* models.py: Event, EventList *)

EventNames == {"Gameweek 1", "Gameweek 2"}

\* is_current / is_next / is_previous as supplied by the feed
EventFlags ==
    { <<FALSE, FALSE, FALSE>>, <<TRUE, FALSE, FALSE>>,
      <<FALSE, TRUE, FALSE>>, <<FALSE, FALSE, TRUE>> }

Event(i, n, d, f) ==
    [id |-> i, name |-> n, deadline_time |-> d,
     is_current |-> f[1], is_next |-> f[2], is_previous |-> f[3]]

\* a variant that still counts a deadline equal to the instant
deadline_after_OrAt(e, today) == e.deadline_time >= today

\* [event for event in self.events if event.deadline_time > today]
deadline_after(e, today) == e.deadline_time > today

filtered_event(events, today) ==
    SelectSeq(events, LAMBDA e : deadline_after(e, today))

\* min(iterable, key=lambda x: x.id): the first element with the least key
min_by_id(s) ==
    s[CHOOSE i \in 1..Len(s) :
        /\ \A j \in 1..Len(s) : s[i].id <= s[j].id
        /\ \A j \in 1..(i - 1) : s[j].id > s[i].id]

\* EventList.current_event, resolved at the instant today
current_event(events, today) ==
    IF filtered_event(events, today) # <<>>
    THEN Some(min_by_id(filtered_event(events, today)))
    ELSE None

\* EventList.current_event_id
current_event_id(events, today) ==
    LET ce == current_event(events, today)
    IN IF ce # None THEN Some(ce.val.id) ELSE None

\* EventList.current_event_name
current_event_name(events, today) ==
    LET ce == current_event(events, today)
    IN IF ce # None THEN Some(ce.val.name) ELSE None

----------------------------------------------------------------------------
(* Parts of the state a specification does not exercise *)

EmptyState == [teams |-> Absent, players |-> Absent,
               events |-> Absent, positions |-> Absent]

NoLocals == [response |-> Absent, teams |-> Absent, players |-> Absent,
             events |-> Absent, positions |-> Absent]

EvIdle ==
    /\ now = 0
    /\ ev_result = Unread
    /\ ev_at = 0
    /\ id_read = Unread
    /\ name_read = Unread

ParseIdle ==
    /\ pc = "idle"
    /\ runs = 0
    /\ locals = NoLocals
    /\ start_state = session_state
    /\ last_run = "none"

PriceIdle ==
    /\ cost_change = <<0, 0>>
    /\ price_change = Unread

TableIdle ==
    /\ df_all_players = <<>>
    /\ criteria = Unread
    /\ df_filtered = <<>>
    /\ tabs = <<>>

SeqsUpTo(S, n) == UNION { [1..k -> S] : k \in 0..n }

----------------------------------------------------------------------------
(* The clock and the reads of the EventList accessors *)

Tick ==
    /\ now < MaxClock
    /\ now' = now + 1
    /\ UNCHANGED <<session_state, feed, ev_result, ev_at, id_read, name_read>>
    /\ UNCHANGED <<parseVars, priceVars, tableVars>>

ReadCurrentEvent ==
    /\ session_state.events # Absent
    /\ ev_result' = current_event(session_state.events.stored, now)
    /\ ev_at' = now
    /\ UNCHANGED <<session_state, feed, now, id_read, name_read>>
    /\ UNCHANGED <<parseVars, priceVars, tableVars>>

ReadCurrentEventId ==
    /\ session_state.events # Absent
    /\ id_read' = current_event_id(session_state.events.stored, now)
    /\ UNCHANGED <<session_state, feed, now, ev_result, ev_at, name_read>>
    /\ UNCHANGED <<parseVars, priceVars, tableVars>>

ReadCurrentEventName ==
    /\ session_state.events # Absent
    /\ name_read' = current_event_name(session_state.events.stored, now)
    /\ UNCHANGED <<session_state, feed, now, ev_result, ev_at, id_read>>
    /\ UNCHANGED <<parseVars, priceVars, tableVars>>

ResolverEvents ==
    { Event(i, "Gameweek 1", d, f) :
        i \in 1..MaxEvents, d \in 1..MaxClock, f \in EventFlags }

InitResolver ==
    /\ \E evs \in SeqsUpTo(ResolverEvents, MaxEvents) :
         session_state = [EmptyState EXCEPT !.events = Stored(evs)]
    /\ feed = Absent
    /\ EvIdle
    /\ ParseIdle
    /\ PriceIdle
    /\ TableIdle

NextResolver == Tick \/ ReadCurrentEvent

SpecResolver == InitResolver /\ [][NextResolver]_vars

AccessorEvents ==
    { Event(i, n, d, <<FALSE, FALSE, FALSE>>) :
        i \in 1..MaxEvents, n \in EventNames, d \in 1..MaxClock }

InitAccessors ==
    /\ \E evs \in SeqsUpTo(AccessorEvents, MaxEvents) :
         session_state = [EmptyState EXCEPT !.events = Stored(evs)]
    /\ feed = Absent
    /\ EvIdle
    /\ ParseIdle
    /\ PriceIdle
    /\ TableIdle

NextAccessors == Tick \/ ReadCurrentEventId \/ ReadCurrentEventName

SpecAccessors == InitAccessors /\ [][NextAccessors]_vars

----------------------------------------------------------------------------
(* Claims about the resolver *)

Eligible(events, t) ==
    { i \in 1..Len(events) : events[i].deadline_time > t }

Unflagged(e) == [id |-> e.id, name |-> e.name, deadline_time |-> e.deadline_time]

ClearFlags(events) ==
    [i \in 1..Len(events) |->
        Event(events[i].id, events[i].name, events[i].deadline_time,
              <<FALSE, FALSE, FALSE>>)]

\* C1: current_event returns an event of least id among the events whose
\* deadline is strictly after the instant of the call, None when there is no
\* such event; an event whose deadline equals the instant is not eligible,
\* and the is_current / is_next / is_previous flags do not affect the result.
C1_CurrentEventIsMinIdOfFuture ==
    ev_result # Unread =>
        LET events == session_state.events.stored
            el == Eligible(events, ev_at)
        IN /\ (el = {}) <=> (ev_result = None)
           /\ el # {} =>
                /\ \E i \in el : events[i] = ev_result.val
                /\ \A j \in el : ev_result.val.id <= events[j].id
                /\ ev_result.val.deadline_time # ev_at
           /\ LET plain == current_event(ClearFlags(events), ev_at)
              IN IF ev_result = None
                 THEN plain = None
                 ELSE plain # None /\ Unflagged(plain.val) = Unflagged(ev_result.val)

\* a call made exactly at the deadline of a stale-flagged event of least id,
\* with a later event still open
C1_Witness ==
    /\ ev_result # Unread
    /\ ev_result # None
    /\ \E i \in 1..Len(session_state.events.stored) :
         /\ session_state.events.stored[i].deadline_time = ev_at
         /\ session_state.events.stored[i].id < ev_result.val.id
         /\ session_state.events.stored[i].is_current

\* C2: whenever both accessors have been read, either both are None or they
\* are the id and the name of one and the same event of the list.
C2_IdAndNameConsistent ==
    (id_read # Unread /\ name_read # Unread) =>
        \/ id_read = None /\ name_read = None
        \/ /\ id_read # None
           /\ name_read # None
           /\ \E i \in 1..Len(session_state.events.stored) :
                /\ session_state.events.stored[i].id = id_read.val
                /\ session_state.events.stored[i].name = name_read.val

----------------------------------------------------------------------------
(* models.py: Team, Position, Player; the raw feed document *)

Team(i, n, pts) == [id |-> i, name |-> n, points |-> pts]

Position(i, n, cnt) == [id |-> i, singular_name |-> n, element_count |-> cnt]

Player(et, tm, st, ep, cost) ==
    [element_type |-> et, team |-> tm, status |-> st,
     ep_next |-> ep, now_cost |-> cost]

\* one JSON object of the feed: its fields, and whether some field has a
\* type the entity's schema rejects
Raw(rec, bad) == [fields |-> rec, malformed |-> bad]

ValidationError == [raised |-> TRUE]

\* [Model.model_validate(x) for x in raws]: the typed records, or the error
\* raised by the first record that fails validation
model_validate_all(raws) ==
    IF \E i \in 1..Len(raws) : raws[i].malformed
    THEN ValidationError
    ELSE [returned |-> [i \in 1..Len(raws) |-> raws[i].fields]]

WellFormed(doc) ==
    \A k \in {"teams", "elements", "events", "element_types"} :
        \A i \in 1..Len(doc[k]) : ~doc[k][i].malformed

\* session_state after lines 50-53 have all run on the validated lists
stored_snapshot(doc) ==
    [teams |-> Stored(model_validate_all(doc.teams).returned),
     players |-> Stored(model_validate_all(doc.elements).returned),
     events |-> Stored(model_validate_all(doc.events).returned),
     positions |-> Stored(model_validate_all(doc.element_types).returned)]

----------------------------------------------------------------------------
(* app.py: get_official_stats and parse_official_stats, statement by        *)
(* statement; an exception ends the run where it is raised                  *)

MaxRuns == 2        \* parse_official_stats runs in one behaviour
MaxVersions == 2    \* distinct documents the feed serves over time

Arrays == <<"teams", "elements", "events", "element_types">>

\* version v of the feed; every array differs between versions; bad names
\* the corrupted record <<array, index>>, or <<>> for none
ParseDoc(v, bad) ==
    [teams |->
        << Raw(Team(1, "Arsenal", v), bad = <<"teams", 1>>),
           Raw(Team(2, "Chelsea", v), bad = <<"teams", 2>>) >>,
     elements |->
        << Raw(Player(1, 1, "a", 1, 40 + v), bad = <<"elements", 1>>),
           Raw(Player(2, 2, "i", 0, 50 + v), bad = <<"elements", 2>>) >>,
     events |->
        << Raw(Event(1, "Gameweek 1", v, <<FALSE, FALSE, FALSE>>),
               bad = <<"events", 1>>),
           Raw(Event(2, "Gameweek 2", v + 1, <<FALSE, FALSE, FALSE>>),
               bad = <<"events", 2>>) >>,
     element_types |->
        << Raw(Position(1, "Goalkeeper", v), bad = <<"element_types", 1>>),
           Raw(Position(2, "Defender", v), bad = <<"element_types", 2>>) >>]

Corruptions == {<<>>} \cup { <<Arrays[a], i>> : a \in 1..4, i \in 1..2 }

ParseDocs == { ParseDoc(v, bad) : v \in 1..MaxVersions, bad \in Corruptions }

Raise ==
    /\ pc' = "idle"
    /\ last_run' = "raised"

\* the remote publishes another document (or the cached one expires)
FeedChanges ==
    /\ pc = "idle"
    /\ \E doc \in ParseDocs : doc # feed /\ feed' = doc
    /\ UNCHANGED <<session_state, evVars, parseVars, priceVars, tableVars>>

CallParse ==
    /\ pc = "idle"
    /\ runs < MaxRuns
    /\ runs' = runs + 1
    /\ pc' = "l43"
    /\ locals' = NoLocals
    /\ start_state' = session_state
    /\ UNCHANGED <<session_state, feed, last_run, evVars, priceVars, tableVars>>

\* line 43: response = get_official_stats(); raise_for_status may raise
GetOfficialStats ==
    /\ pc = "l43"
    /\ \/ Raise /\ UNCHANGED locals
       \/ /\ locals' = [locals EXCEPT !.response = Stored(feed)]
          /\ pc' = "l44"
          /\ UNCHANGED last_run
    /\ UNCHANGED <<session_state, feed, runs, start_state>>
    /\ UNCHANGED <<evVars, priceVars, tableVars>>

\* a variant that publishes each list as soon as it is validated
Validate_StoringAtOnce(at, array, local, next) ==
    /\ pc = at
    /\ LET res == model_validate_all(locals.response.stored[array])
       IN IF res = ValidationError
          THEN Raise /\ UNCHANGED <<locals, session_state>>
          ELSE /\ locals' = [locals EXCEPT ![local] = Stored(res.returned)]
               /\ session_state' =
                    [session_state EXCEPT ![local] = Stored(res.returned)]
               /\ pc' = next
               /\ UNCHANGED last_run
    /\ UNCHANGED <<feed, runs, start_state>>
    /\ UNCHANGED <<evVars, priceVars, tableVars>>

\* lines 44-49: one list comprehension, bound to a local name
Validate(at, array, local, next) ==
    /\ pc = at
    /\ LET res == model_validate_all(locals.response.stored[array])
       IN IF res = ValidationError
          THEN Raise /\ UNCHANGED locals
          ELSE /\ locals' = [locals EXCEPT ![local] = Stored(res.returned)]
               /\ pc' = next
               /\ UNCHANGED last_run
    /\ UNCHANGED <<session_state, feed, runs, start_state>>
    /\ UNCHANGED <<evVars, priceVars, tableVars>>

ValidateTeams == Validate("l44", "teams", "teams", "l45")

ValidatePlayers == Validate("l45", "elements", "players", "l46")

ValidateEvents == Validate("l46", "events", "events", "l47")

ValidatePositions == Validate("l47", "element_types", "positions", "l50")

\* lines 50-53: st.session_state[key] = XList(...=local)
Store(at, key, next) ==
    /\ pc = at
    /\ session_state' = [session_state EXCEPT ![key] = locals[key]]
    /\ pc' = next
    /\ last_run' = IF next = "idle" THEN "returned" ELSE last_run
    /\ UNCHANGED <<feed, runs, locals, start_state>>
    /\ UNCHANGED <<evVars, priceVars, tableVars>>

StoreTeams == Store("l50", "teams", "l51")

StorePlayers == Store("l51", "players", "l52")

StoreEvents == Store("l52", "events", "l53")

StorePositions == Store("l53", "positions", "idle")

InitParse ==
    /\ session_state = EmptyState
    /\ feed \in ParseDocs
    /\ EvIdle
    /\ ParseIdle
    /\ PriceIdle
    /\ TableIdle

NextParse ==
    \/ FeedChanges
    \/ CallParse
    \/ GetOfficialStats
    \/ ValidateTeams
    \/ ValidatePlayers
    \/ ValidateEvents
    \/ ValidatePositions
    \/ StoreTeams
    \/ StorePlayers
    \/ StoreEvents
    \/ StorePositions

SpecParse == InitParse /\ [][NextParse]_vars

AllAbsent(ss) ==
    /\ ss.teams = Absent
    /\ ss.players = Absent
    /\ ss.events = Absent
    /\ ss.positions = Absent

\* C3: after any run of parse_official_stats, a run that raised (in the
\* fetch or in the validation of any record) has written none of the four
\* entries, and the four entries are all absent or all derived from one and
\* the same well-formed document.
C3_SnapshotAllOrNothing ==
    pc = "idle" =>
        /\ last_run = "raised" => session_state = start_state
        /\ \/ AllAbsent(session_state)
           \/ \E doc \in ParseDocs :
                /\ WellFormed(doc)
                /\ session_state = stored_snapshot(doc)

\* a run on another version of the feed raised in the last array, after an
\* earlier run had stored a snapshot
C3_Witness ==
    /\ pc = "idle"
    /\ last_run = "raised"
    /\ ~AllAbsent(session_state)
    /\ locals.response # Absent
    /\ locals.events # Absent
    /\ locals.positions = Absent
    /\ locals.teams # session_state.teams

----------------------------------------------------------------------------
(* app.py: preprocess_players_df, the "Price Change" column (lines 70-79)   *)

MaxDelta == 5       \* cost_change_event, cost_change_start in -MaxDelta..MaxDelta

\* the three symbols of the map at line 78
ARROW_DOWN == "down"
BLANK == " "
ARROW_UP == "up"

\* np.sign on an integer
np_sign(x) == IF x < 0 THEN -1 ELSE IF x > 0 THEN 1 ELSE 0

\* .map({-1: ..., 0: ..., 1: ...})
price_change_symbol(k) ==
    CASE k = -1 -> ARROW_DOWN
      [] k = 0 -> BLANK
      [] k = 1 -> ARROW_UP

\* a variant that takes the sign of the sum of the raw deltas
price_change_of_SignOfSum(cost_change_event, cost_change_start) ==
    price_change_symbol(np_sign(cost_change_event + cost_change_start))

\* (cost_change_event.apply(np.sign) + cost_change_start.apply(np.sign))
\*     .apply(np.sign).map(...)
price_change_of(cost_change_event, cost_change_start) ==
    price_change_symbol(
        np_sign(np_sign(cost_change_event) + np_sign(cost_change_start)))

PreprocessPlayersDf ==
    /\ price_change = Unread
    /\ price_change' = Some(price_change_of(cost_change[1], cost_change[2]))
    /\ UNCHANGED <<session_state, feed, cost_change>>
    /\ UNCHANGED <<evVars, parseVars, tableVars>>

InitPrice ==
    /\ session_state = EmptyState
    /\ feed = Absent
    /\ EvIdle
    /\ ParseIdle
    /\ cost_change \in (-MaxDelta..MaxDelta) \X (-MaxDelta..MaxDelta)
    /\ price_change = Unread
    /\ TableIdle

NextPrice == PreprocessPlayersDf

SpecPrice == InitPrice /\ [][NextPrice]_vars

\* C4: the indicator is down when one delta is negative and the other is not
\* positive, up when one is positive and the other is not negative, flat
\* otherwise (both zero, or of opposite signs); so (1,-1) and (0,0) give
\* flat, (1,1) gives up, (-1,-1) gives down, whatever the magnitudes.
C4_PriceChangeIndicator ==
    price_change # Unread =>
        LET e == cost_change[1]
            s == cost_change[2]
            down == (e < 0 /\ s <= 0) \/ (e <= 0 /\ s < 0)
            up == (e > 0 /\ s >= 0) \/ (e >= 0 /\ s > 0)
        IN /\ price_change.val \in {ARROW_DOWN, BLANK, ARROW_UP}
           /\ (price_change.val = ARROW_DOWN) <=> down
           /\ (price_change.val = ARROW_UP) <=> up
           /\ (price_change.val = BLANK) <=> (~down /\ ~up)
           /\ (e > 0 /\ s < 0) => price_change.val = BLANK
           /\ (e = 1 /\ s = 1) => price_change.val = ARROW_UP
           /\ (e = 0 /\ s = 0) => price_change.val = BLANK
           /\ (e = -1 /\ s = -1) => price_change.val = ARROW_DOWN

\* deltas of opposite signs and of unequal magnitudes read flat
C4_Witness ==
    /\ price_change = Some(BLANK)
    /\ cost_change[1] > 1
    /\ cost_change[2] = -1

----------------------------------------------------------------------------
(* models.py: the lists' lookups *)

\* what a lookup returns for an id no entity has (Python's None)
NoName == "None"

\* PositionList.singular_names
singular_names(positions) ==
    [i \in 1..Len(positions) |-> positions[i].singular_name]

\* TeamList.team_names
team_names(teams) == [i \in 1..Len(teams) |-> teams[i].name]

\* PositionList.position_singular_name_by_id: the first position with the id
position_singular_name_by_id(positions, position_id) ==
    IF \E i \in 1..Len(positions) : positions[i].id = position_id
    THEN positions[CHOOSE i \in 1..Len(positions) :
            /\ positions[i].id = position_id
            /\ \A j \in 1..(i - 1) : positions[j].id # position_id].singular_name
    ELSE NoName

\* TeamList.team_name_by_id: the first team with the id
team_name_by_id(teams, team_id) ==
    IF \E i \in 1..Len(teams) : teams[i].id = team_id
    THEN teams[CHOOSE i \in 1..Len(teams) :
            /\ teams[i].id = team_id
            /\ \A j \in 1..(i - 1) : teams[j].id # team_id].name
    ELSE NoName

\* PlayerList.to_dataframe(include_fields, columna_rename_mapping): one row
\* per player, in list order, under the default RangeIndex, the selected
\* fields renamed
to_dataframe(players) ==
    [i \in 1..Len(players) |->
        [index |-> i - 1,
         POS |-> players[i].element_type,
         Team |-> players[i].team,
         Status |-> players[i].status,
         xPointThisGW |-> players[i].ep_next,
         Price |-> players[i].now_cost]]

----------------------------------------------------------------------------
(* Floating point values, by kind *)

NaN == [kind |-> "nan", num |-> 0, den |-> 1]
PosInf == [kind |-> "inf", num |-> 0, den |-> 1]
NegInf == [kind |-> "-inf", num |-> 0, den |-> 1]
Finite(n, d) == [kind |-> "finite", num |-> n, den |-> d]

\* x / (tenths / 10) on float64 columns: a zero divisor gives inf, -inf or
\* NaN and raises nothing
float_div(x, tenths) ==
    IF tenths = 0
    THEN IF x > 0 THEN PosInf ELSE IF x < 0 THEN NegInf ELSE NaN
    ELSE Finite(x * 10, tenths)

\* a > b on floats that are not NaN (denominators are positive)
float_gt(a, b) ==
    \/ a.kind = "inf" /\ b.kind # "inf"
    \/ b.kind = "-inf" /\ a.kind # "-inf"
    \/ a.kind = "finite" /\ b.kind = "finite" /\ a.num * b.den > b.num * a.den

----------------------------------------------------------------------------
(* app.py: main, lines 159-212: the table of all players *)

\* lines 202-209: the price in units (kept here as tenths), the names looked
\* up by id, and the ratio column
with_derived_columns(df, teams, positions) ==
    [i \in 1..Len(df) |->
        [index |-> df[i].index,
         POS |-> position_singular_name_by_id(positions, df[i].POS),
         Team |-> team_name_by_id(teams, df[i].Team),
         Status |-> df[i].Status,
         xPointThisGW |-> df[i].xPointThisGW,
         Price |-> df[i].Price,
         xPointPerPrice |-> float_div(df[i].xPointThisGW, df[i].Price)]]

Perms(n) ==
    { f \in [1..n -> 1..n] : \A i, j \in 1..n : i # j => f[i] # f[j] }

\* row a must come before row b when sorted descending with NaN last
sorts_before(a, b) ==
    \/ a.xPointPerPrice.kind # "nan" /\ b.xPointPerPrice.kind = "nan"
    \/ /\ a.xPointPerPrice.kind # "nan"
       /\ b.xPointPerPrice.kind # "nan"
       /\ float_gt(a.xPointPerPrice, b.xPointPerPrice)

\* df.sort_values(by="xPoint/Price This GW", ascending=False): the default
\* quicksort is not stable, so rows with equal keys come out in any order
sort_values(df) ==
    { [i \in 1..Len(df) |-> df[f[i]]] : f \in
        { g \in Perms(Len(df)) :
            \A i, j \in 1..Len(df) :
                i < j => ~sorts_before(df[g[j]], df[g[i]]) } }

----------------------------------------------------------------------------
(* app.py: main, lines 216-240: the widgets *)

\* the indices of I in increasing order
Ascending(I) ==
    CHOOSE f \in [1..Cardinality(I) -> I] :
        \A a, b \in 1..Cardinality(I) : a < b => f[a] < f[b]

\* st.multiselect(options=..., default=...): the options at the selected
\* indices; the default selects every index
multiselect(options) ==
    { [k \in 1..Cardinality(I) |-> options[Ascending(I)[k]]] :
        I \in SUBSET (1..Len(options)) }

RECURSIVE price_min(_)
price_min(df) ==
    IF Len(df) = 1 THEN df[1].Price
    ELSE LET m == price_min(Tail(df))
         IN IF df[1].Price < m THEN df[1].Price ELSE m

RECURSIVE price_max(_)
price_max(df) ==
    IF Len(df) = 1 THEN df[1].Price
    ELSE LET m == price_max(Tail(df))
         IN IF df[1].Price > m THEN df[1].Price ELSE m

\* st.slider(label, min, max, (min, max), step=0.1): a pair lo <= hi
slider(lo, hi) == { <<a, b>> \in (lo..hi) \X (lo..hi) : a <= b }

----------------------------------------------------------------------------
(* app.py: main, lines 244-262: the filter steps *)

isin(v, values) == \E i \in 1..Len(values) : values[i] = v

\* a variant in which an empty selection keeps every row
keep_positions_EmptyKeepsAll(df, position) ==
    IF position = <<>> THEN df
    ELSE SelectSeq(df, LAMBDA row : isin(row.POS, position))

\* line 244
keep_positions(df, position) ==
    SelectSeq(df, LAMBDA row : isin(row.POS, position))

\* line 245
keep_teams(df, team) ==
    SelectSeq(df, LAMBDA row : isin(row.Team, team))

\* lines 247-257: if not include: df = df[df["Status"] != code]
drop_status(df, include, code) ==
    IF ~include
    THEN SelectSeq(df, LAMBDA row : row.Status # code)
    ELSE df

\* a variant whose lower bound is exclusive
keep_price_range_Exclusive(df, price_range) ==
    SelectSeq(df, LAMBDA row :
        row.Price > price_range[1] /\ row.Price <= price_range[2])

\* a variant that measures the lower bound from the cheapest row of the frame
keep_price_range_FromCheapest(df, price_range) ==
    IF df = <<>> THEN df
    ELSE SelectSeq(df, LAMBDA row :
            /\ row.Price - price_min(df) >= price_range[1]
            /\ row.Price <= price_range[2])

\* lines 259-262
keep_price_range(df, price_range) ==
    SelectSeq(df, LAMBDA row :
        row.Price >= price_range[1] /\ row.Price <= price_range[2])

apply_filters(df, c) ==
    LET f1 == keep_positions(df, c.position)
        f2 == keep_teams(f1, c.team)
        f3 == drop_status(f2, c.injured, "i")
        f4 == drop_status(f3, c.unavailable, "u")
        f5 == drop_status(f4, c.suspended, "s")
        f6 == drop_status(f5, c.doubt, "d")
    IN keep_price_range(f6, c.price_range)

----------------------------------------------------------------------------
(* app.py: main, lines 264-281: the tabs *)

RECURSIVE price_sum(_)
price_sum(df) ==
    IF df = <<>> THEN 0 ELSE df[1].Price + price_sum(Tail(df))

\* a variant that reports zero over zero rows
price_mean_ZeroWhenEmpty(df) ==
    IF Len(df) = 0 THEN Finite(0, 1) ELSE Finite(price_sum(df), 10 * Len(df))

\* Series.mean(): NaN over zero rows; the prices are tenths of a unit
price_mean(df) ==
    IF Len(df) = 0 THEN NaN ELSE Finite(price_sum(df), 10 * Len(df))

\* for tab, pos in zip(tabs, position): the rows and the summary of the tab
render_tabs(df, position) ==
    [k \in 1..Len(position) |->
        LET df_filtered_pos == SelectSeq(df, LAMBDA row : row.POS = position[k])
        IN [pos |-> position[k],
            rows |-> df_filtered_pos,
            count |-> Len(df_filtered_pos),
            mean |-> price_mean(df_filtered_pos)]]

----------------------------------------------------------------------------
(* app.py: main, one script run *)

Criteria(position, team, injured, unavailable, suspended, doubt, price_range) ==
    [position |-> position, team |-> team, injured |-> injured,
     unavailable |-> unavailable, suspended |-> suspended, doubt |-> doubt,
     price_range |-> price_range]

\* every value the widgets of lines 216-240 can return
any_values(pos_names, team_list, df) ==
    { Criteria(position, team, fl[1], fl[2], fl[3], fl[4], price_range) :
        position \in multiselect(pos_names),
        team \in multiselect(team_list),
        fl \in BOOLEAN \X BOOLEAN \X BOOLEAN \X BOOLEAN,
        price_range \in slider(price_min(df), price_max(df)) }

\* any selection of positions, the other widgets left at their defaults
default_values_but_position(pos_names, team_list, df) ==
    { Criteria(position, team_list, FALSE, FALSE, FALSE, FALSE,
               <<price_min(df), price_max(df)>>) :
        position \in multiselect(pos_names) }

\* the values the script run reads from the widgets
widget_values(only_position, pos_names, team_list, df) ==
    IF only_position
    THEN default_values_but_position(pos_names, team_list, df)
    ELSE any_values(pos_names, team_list, df)

\* the script run: parse_official_stats, the table, the values c read from
\* the widgets, the filter steps and the tabs; with only_position the user
\* touches no widget but the position selection
Main(only_position) ==
    /\ criteria = Unread
    /\ feed # Absent
    /\ WellFormed(feed)
    /\ LET ss == stored_snapshot(feed)
           teams == ss.teams.stored
           positions == ss.positions.stored
           players == ss.players.stored
       IN /\ players # <<>>
          /\ session_state' = ss
          /\ \E df \in sort_values(
                   with_derived_columns(to_dataframe(players), teams, positions)) :
             \E c \in widget_values(only_position,
                   singular_names(positions), team_names(teams), df) :
               /\ df_all_players' = df
               /\ criteria' = c
               /\ df_filtered' = apply_filters(df, c)
               /\ tabs' = render_tabs(df_filtered', c.position)
    /\ UNCHANGED <<feed, evVars, parseVars, priceVars>>

----------------------------------------------------------------------------
(* Feed documents for the table *)

MaxPlayers == 2     \* longest list of players in a document

Statuses == {"a", "i", "u", "s", "d"}
NowCosts == 0..2
EpValues == {-1, 0, 1}

RawAll(recs) == [i \in 1..Len(recs) |-> Raw(recs[i], FALSE)]

TableDoc(teams, positions, players) ==
    [teams |-> RawAll(teams), elements |-> RawAll(players),
     events |-> <<>>, element_types |-> RawAll(positions)]

TwoTeams == << Team(1, "Arsenal", 0), Team(2, "Chelsea", 0) >>

TwoPositions == << Position(1, "Goalkeeper", 0), Position(2, "Defender", 0) >>

InitTable(docs) ==
    /\ session_state = EmptyState
    /\ feed \in docs
    /\ EvIdle
    /\ ParseIdle
    /\ PriceIdle
    /\ TableIdle

----------------------------------------------------------------------------
(* The filter steps under every value of the widgets *)

\* element_type 3 is an id no position has
FilterPlayers ==
    { Player(et, tm, st, 1, cost) :
        et \in 1..3, tm \in 1..2, st \in Statuses, cost \in NowCosts }

OtherPlayers ==
    { Player(1, 1, "a", 1, 1), Player(2, 2, "a", 1, 2),
      Player(1, 2, "i", 1, 0), Player(2, 1, "d", 0, 1) }

FilterDocs ==
    { TableDoc(TwoTeams, TwoPositions, <<p>> \o rest) :
        p \in FilterPlayers, rest \in SeqsUpTo(OtherPlayers, MaxPlayers - 1) }

RunFiltered == Main(FALSE)

InitFilter == InitTable(FilterDocs)

NextFilter == RunFiltered

SpecFilter == InitFilter /\ [][NextFilter]_vars

----------------------------------------------------------------------------
(* The ratio column and the tabs under every list of positions *)

PosNames == {"Goalkeeper", "Defender"}

\* one or two positions, ids 1 and 2, names not necessarily distinct
PositionLists ==
    { << Position(1, a, 0) >> : a \in PosNames }
    \cup { << Position(1, a, 0), Position(2, b, 0) >> : a, b \in PosNames }

TabsPlayers ==
    { Player(et, 1, "a", ep, cost) :
        et \in 1..2, ep \in EpValues, cost \in NowCosts }

TabsDocs ==
    { TableDoc(TwoTeams, positions, players) :
        positions \in PositionLists,
        players \in SeqsUpTo(TabsPlayers, MaxPlayers) \ {<<>>} }

RunTabs == Main(TRUE)

InitTabs == InitTable(TabsDocs)

NextTabs == RunTabs

SpecTabs == InitTabs /\ [][NextTabs]_vars

----------------------------------------------------------------------------
(* Claims about the table, the filter steps and the tabs *)

Values(seq) == { seq[i] : i \in 1..Len(seq) }

Indexes(df) == { df[i].index : i \in 1..Len(df) }

\* the status codes the unticked checkboxes exclude
Excluded(c) ==
    (IF c.injured THEN {} ELSE {"i"})
    \cup (IF c.unavailable THEN {} ELSE {"u"})
    \cup (IF c.suspended THEN {} ELSE {"s"})
    \cup (IF c.doubt THEN {} ELSE {"d"})

\* C5: a row whose price is zero has the ratio "not applicable" (NaN), never
\* an infinity, and stands after every row whose ratio is defined.
C5_ZeroPriceRatioNotApplicable ==
    criteria # Unread =>
        \A i \in 1..Len(df_all_players) :
            df_all_players[i].Price = 0 =>
                /\ df_all_players[i].xPointPerPrice.kind = "nan"
                /\ \A j \in 1..Len(df_all_players) :
                     df_all_players[j].xPointPerPrice.kind = "finite" => j < i

\* C6: a row of the table is in the filtered table exactly when its position
\* is selected, its team is selected, its status is not excluded and its
\* price lies in the closed price range; the filtered table holds rows of
\* the table only, each once.
C6_FilterIsConjunction ==
    criteria # Unread =>
        /\ \A i \in 1..Len(df_all_players) :
             LET row == df_all_players[i]
             IN (\E j \in 1..Len(df_filtered) : df_filtered[j] = row)
                <=> /\ row.POS \in Values(criteria.position)
                    /\ row.Team \in Values(criteria.team)
                    /\ row.Status \notin Excluded(criteria)
                    /\ criteria.price_range[1] <= row.Price
                    /\ row.Price <= criteria.price_range[2]
        /\ \A j \in 1..Len(df_filtered) :
             \E i \in 1..Len(df_all_players) : df_all_players[i] = df_filtered[j]
        /\ Cardinality(Indexes(df_filtered)) = Len(df_filtered)

\* rows priced at the minimum and at the maximum of the range are both
\* retained, one of them injured with the include box ticked
C6_Witness ==
    /\ criteria # Unread
    /\ criteria.injured
    /\ criteria.price_range[1] < criteria.price_range[2]
    /\ \E i, j \in 1..Len(df_filtered) :
         /\ df_filtered[i].Price = criteria.price_range[1]
         /\ df_filtered[j].Price = criteria.price_range[2]
         /\ df_filtered[i].Status = "i"

\* C7: with no position selected, or with no team selected, the filtered
\* table has zero rows and every tab has zero rows.
C7_EmptySelectionKeepsNothing ==
    (criteria # Unread /\ (criteria.position = <<>> \/ criteria.team = <<>>)) =>
        /\ df_filtered = <<>>
        /\ \A k \in 1..Len(tabs) : tabs[k].rows = <<>> /\ tabs[k].count = 0

\* no position selected while every other widget lets every row through
C7_Witness ==
    /\ criteria # Unread
    /\ criteria.position = <<>>
    /\ Len(criteria.team) = 2
    /\ criteria.injured /\ criteria.unavailable
    /\ criteria.suspended /\ criteria.doubt
    /\ criteria.price_range = <<price_min(df_all_players), price_max(df_all_players)>>
    /\ \A i \in 1..Len(df_all_players) : df_all_players[i].POS # NoName
    /\ df_filtered = <<>>

\* C8: applying the filter steps, with the same criteria, to the filtered
\* table gives the filtered table again, same rows in the same order.
C8_FilterIdempotent ==
    criteria # Unread => apply_filters(df_filtered, criteria) = df_filtered

\* the filter steps removed a row and kept another
C8_Witness ==
    /\ criteria # Unread
    /\ df_filtered # <<>>
    /\ Len(df_filtered) < Len(df_all_players)
    /\ criteria.price_range[1] > price_min(df_all_players)

\* C9: every row of the filtered table is in exactly one tab, once, and every
\* row of every tab is a row of the filtered table.
C9_TabsPartitionFiltered ==
    criteria # Unread =>
        /\ \A j \in 1..Len(df_filtered) :
             Cardinality({ kr \in { <<k, r>> \in (1..Len(tabs)) \X (1..Len(df_filtered)) :
                                      r <= Len(tabs[k].rows) } :
                           tabs[kr[1]].rows[kr[2]].index = df_filtered[j].index }) = 1
        /\ \A k \in 1..Len(tabs) :
             \A r \in 1..Len(tabs[k].rows) :
                \E j \in 1..Len(df_filtered) : df_filtered[j] = tabs[k].rows[r]

\* C10: there is one tab per selected position; a tab with zero rows has
\* count 0 and a mean price that is NaN ("not applicable"), not zero and not
\* any other number; a tab with rows has their count and a finite mean.
C10_EmptyTabIsDisplayable ==
    criteria # Unread =>
        /\ Len(tabs) = Len(criteria.position)
        /\ \A k \in 1..Len(tabs) :
             /\ tabs[k].count = Len(tabs[k].rows)
             /\ tabs[k].rows = <<>> =>
                  /\ tabs[k].count = 0
                  /\ tabs[k].mean.kind = "nan"
                  /\ tabs[k].mean # Finite(0, 1)
             /\ tabs[k].rows # <<>> => tabs[k].mean.kind = "finite"

\* a tab without rows beside a tab with rows
C10_Witness ==
    /\ criteria # Unread
    /\ \E k, m \in 1..Len(tabs) : tabs[k].count = 0 /\ tabs[m].count > 0

====
